---- MODULE Spec2Model ----
(***************************************************************************)
(* Model of src/server.py: the price proxy's number parser, HTML price     *)
(* extractor, the two source fetchers, resolve_price and the /v1/price     *)
(* handler get_price.                                                      *)
(*                                                                         *)
(* Text is a sequence of one-character tokens.  ASCII characters stand for *)
(* themselves; the Persian digits U+06F0..U+06F9 are "fa0".."fa9", the     *)
(* Arabic thousands separator U+066C is "ar_sep", a line feed is "nl" and  *)
(* the Persian letters of the label are named by their letter names.       *)
(* An Optional[int] is a sequence: <<>> is None and <<v>> is the int v.     *)
(***************************************************************************)
EXTENDS Integers, Sequences, FiniteSets, TLC

(***************************************************************************)
(* Bounds of the model.                                                    *)
(***************************************************************************)
\* requests that can be in flight at the same time
NumRequests == 2
\* largest UPSTREAM_RETRIES the environment is taken to set
MaxRetries == 3
\* largest UPSTREAM_RETRIES in the runs with several requests in flight
MaxConcRetries == 2
\* longest digit/separator run placed after the label in a checked page
MaxRun == 3

(***************************************************************************)
(* Characters                                                              *)
(***************************************************************************)
persian == <<"fa0", "fa1", "fa2", "fa3", "fa4", "fa5", "fa6", "fa7", "fa8", "fa9">>
latin == <<"0", "1", "2", "3", "4", "5", "6", "7", "8", "9">>

AsciiDigits == {latin[i] : i \in 1..10}
PersianDigits == {persian[i] : i \in 1..10}
\* the class [0-9 Persian 0-9 , U+066C .] of both regular expressions
NumClass == PersianDigits \cup AsciiDigits \cup {",", "ar_sep", "."}
\* what \s and str.strip() take for whitespace
Whitespace == {" ", "nl"}

None == <<>>
Some(v) == <<v>>

\* mutant: "is not None" in the place of the truth value
TruthyNotNone(price) == price # None

\* Python's truth value of an Optional[int]: None and 0 are false
Truthy(price) == price # None /\ price[1] # 0

(***************************************************************************)
(* to_int                                                                  *)
(***************************************************************************)
\* str.translate(trans) on one character
Translate(c) ==
    IF c \in PersianDigits THEN latin[CHOOSE i \in 1..10 : persian[i] = c] ELSE c

\* NUM_RE.sub("", s): drop every character that is not a digit
StripNonDigits(s) == SelectSeq(s, LAMBDA c : c \in AsciiDigits)

RECURSIVE IntOf(_)
\* int(s) of a non-empty string of ASCII digits
IntOf(s) ==
    IF s = <<>> THEN 0
    ELSE 10 * IntOf(SubSeq(s, 1, Len(s) - 1))
         + ((CHOOSE i \in 1..10 : latin[i] = s[Len(s)]) - 1)

to_int(num_text) ==
    IF num_text = <<>> THEN None
    ELSE LET s == StripNonDigits([i \in 1..Len(num_text) |-> Translate(num_text[i])])
         IN  IF s # <<>> THEN Some(IntOf(s)) ELSE None

(***************************************************************************)
(* extract_last_price                                                      *)
(***************************************************************************)
AKHARIN == <<"alef_madda", "khe", "re", "ye", "nun">>
QEYMAT == <<"qaf", "ye", "mim", "te">>

\* the literal lit stands in s at position i
LiteralAt(s, i, lit) ==
    /\ i + Len(lit) - 1 <= Len(s)
    /\ \A n \in 1..Len(lit) : s[i + n - 1] = lit[n]

\* first position >= i whose character is outside C (Len(s)+1 when none):
\* where a greedy C* that starts at i stops
RunEnd(s, i, C) ==
    CHOOSE e \in i..(Len(s) + 1) :
        /\ e = Len(s) + 1 \/ s[e] \notin C
        /\ \A m \in i..(e - 1) : s[m] \in C

\* first position >= i holding an ASCII digit (Len(s)+1 when none):
\* where a greedy [^0-9]* that starts at i stops
NonAsciiDigitEnd(s, i) ==
    CHOOSE e \in i..(Len(s) + 1) :
        /\ e = Len(s) + 1 \/ s[e] \in AsciiDigits
        /\ \A m \in i..(e - 1) : s[m] \notin AsciiDigits

\* position after the label when the label pattern matches at i, else 0
LabelEnd(s, i) ==
    IF ~LiteralAt(s, i, AKHARIN) THEN 0
    ELSE LET j == RunEnd(s, i + Len(AKHARIN), Whitespace)
         IN  IF LiteralAt(s, j, QEYMAT) THEN j + Len(QEYMAT) ELSE 0

\* positions where group 1 of the labeled pattern can start for a match that
\* begins at i: [^0-9]* gives characters back until [class]+ can match
LabeledStarts(s, i) ==
    LET k0 == LabelEnd(s, i)
    IN  IF k0 = 0 THEN {}
        ELSE {k \in k0..NonAsciiDigitEnd(s, k0) : k <= Len(s) /\ s[k] \in NumClass}

SetMax(S) == CHOOSE x \in S : \A y \in S : y <= x
SetMin(S) == CHOOSE x \in S : \A y \in S : x <= y

\* group 1 of re.search(labeled pattern, html), <<>> when there is no match
LabeledGroup(html) ==
    LET starts == {i \in 1..Len(html) : LabeledStarts(html, i) # {}}
    IN  IF starts = {} THEN <<>>
        ELSE LET k == SetMax(LabeledStarts(html, SetMin(starts)))
             IN  SubSeq(html, k, RunEnd(html, k, NumClass) - 1)

\* the least number of class characters that must follow the leading digit
MinTail == 5

\* group 1 of re.search(long-run pattern, html), <<>> when there is no match
LongRunGroup(html) ==
    LET starts == {i \in 1..Len(html) :
                      /\ html[i] \in PersianDigits \cup AsciiDigits
                      /\ i + MinTail <= Len(html)
                      /\ \A n \in 1..MinTail : html[i + n] \in NumClass}
    IN  IF starts = {} THEN <<>>
        ELSE LET k == SetMin(starts)
             IN  SubSeq(html, k, RunEnd(html, k, NumClass) - 1)

extract_last_price(html) ==
    LET g1 == LabeledGroup(html)
        v == to_int(g1)
        g2 == LongRunGroup(html)
    IN  IF g1 # <<>> /\ Truthy(v) THEN v
        ELSE IF g2 # <<>> THEN to_int(g2)
        ELSE None

(***************************************************************************)
(* Module globals, requests and the network                                *)
(***************************************************************************)
\* os.getenv defaults
DEFAULT_API_KEY == "change-me"
UPSTREAM_TIMEOUT == 25
\* asyncio.sleep(0.8), in milliseconds
RetryDelayMs == 800

SymGold == <<"C", "D", "1", "G", "0", "B", "0", "0", "0", "1">>
SymGoldTypo == <<"C", "D", "1", "G", "O", "B", "0", "0", "0", "1">>
SymSilver == <<"C", "D", "1", "S", "I", "B", "0", "0", "0", "1">>
SymLowerTypo == <<"c", "d", "1", "g", "o", "b", "0", "0", "0", "1">>

KNOWN_TABLE ==
    [s \in {SymGold, SymGoldTypo, SymSilver} |->
        IF s = SymSilver THEN [kind |-> "silver_cert", unit |-> "1 g"]
        ELSE [kind |-> "gold_cert", unit |-> "0.1 g"]]

SOURCES == <<"chartix", "rahavard">>

Requests == 1..NumRequests

VARIABLES
    API_KEY,     \* module global API_KEY
    KNOWN,       \* module global KNOWN
    TIMEOUT,     \* module global TIMEOUT (seconds)
    RETRIES,     \* module global RETRIES
    pc,          \* per request: "idle", "fetch" (awaiting client.get), "sleep", "done"
    args,        \* per request: the arguments bound to get_price
    frame,       \* per request: the locals of get_price and resolve_price
    response,    \* per request: the HTTP response of a finished request
    hist,        \* per request: the fetches that returned and the delays waited
    page,        \* the text last handed to extract_last_price on its own
    extracted    \* what extract_last_price returned for page

vars == <<API_KEY, KNOWN, TIMEOUT, RETRIES, pc, args, frame, response, hist,
          page, extracted>>
config == <<API_KEY, KNOWN, TIMEOUT, RETRIES>>

NoArgs == [symbol |-> <<>>, prefer |-> "None", x_api_key |-> "None"]
NoFrame == [sym |-> <<>>, order |-> <<>>, i |-> 0, n |-> 0, price |-> None,
            entered |-> FALSE, returned |-> FALSE, rprice |-> None, rsrc |-> ""]
NoResponse == [status |-> 0, symbol |-> <<>>, lastPrice |-> None, currency |-> "",
               per |-> "", unitDetails |-> "", source |-> "", detail |-> ""]
NoReply == [error |-> "", late |-> FALSE, status |-> 0]
NoHist == [log |-> <<>>, sleeps |-> <<>>, last |-> NoReply]
NoPage == [pre |-> <<>>, lab |-> <<>>, gap |-> <<>>, run |-> <<>>, post |-> <<>>]

\* str.strip()
strip(s) ==
    LET keep == {i \in 1..Len(s) : s[i] \notin Whitespace}
    IN  IF keep = {} THEN <<>> ELSE SubSeq(s, SetMin(keep), SetMax(keep))

\* mutant: the allowlist test left out
InKnownUnchecked(sym, known) == TRUE

\* sym in KNOWN
InKnown(sym, known) == sym \in DOMAIN known

\* mutant: the canonical order whatever the preference
OrderCanonical(prefer) == SOURCES

\* mutant: no fallback source
OrderPreferOnly(prefer) == <<prefer>>

\* order = [prefer] + [s for s in ("chartix", "rahavard") if s != prefer]
Order(prefer) == <<prefer>> \o SelectSeq(SOURCES, LAMBDA s : s # prefer)

\* an exception that leaves a coroutine (no Optional[int] has two entries)
Raised == <<0, 0>>

\* client.get raised: a transport error, or no answer within the timeout
GetRaises(reply, timeout) == reply.error # "" \/ reply.elapsed > timeout

\* mutant: no try/except around the request
fetch_chartix_unguarded(symbol, reply, timeout) ==
    IF GetRaises(reply, timeout) THEN Raised
    ELSE IF reply.status # 200 THEN None
    ELSE extract_last_price(reply.text)

fetch_chartix(symbol, reply, timeout) ==
    IF GetRaises(reply, timeout) THEN None
    ELSE IF reply.status # 200 THEN None
    ELSE extract_last_price(reply.text)

fetch_rahavard(symbol, reply, timeout) ==
    IF GetRaises(reply, timeout) THEN None
    ELSE IF reply.status # 200 THEN None
    ELSE extract_last_price(reply.text)

\* sources[src](symbol)
Fetch(src, symbol, reply, timeout) ==
    IF src = "chartix" THEN fetch_chartix(symbol, reply, timeout)
    ELSE fetch_rahavard(symbol, reply, timeout)

\* mutant: a delay that grows with the attempt
SleepBackoff(n) == RetryDelayMs * (n + 1)

\* the argument of asyncio.sleep after attempt n of a source
SleepDelay(n) == RetryDelayMs

\* mutant: the locals kept in one module-level variable shared by all requests
StoreGlobal(f, r, v) == [q \in DOMAIN f |-> v]

\* an assignment to a local of request r's coroutine
StoreLocal(f, r, v) == [f EXCEPT ![r] = v]

HttpError(status, detail) == [NoResponse EXCEPT !.status = status, !.detail = detail]

\* get_price after resolve_price returned (price, src)
Finish(a, sym, price, src, known) ==
    IF price = Raised \/ (Truthy(price) /\ sym \notin DOMAIN known)
    THEN HttpError(500, "")
    ELSE IF ~Truthy(price) THEN HttpError(502, a.prefer)
    ELSE [status |-> 200, symbol |-> sym, lastPrice |-> price, currency |-> "IRR",
          per |-> "unit",
          unitDetails |-> IF known[sym].kind = "gold_cert" THEN "gold 0.1 g"
                          ELSE "silver 1 g",
          source |-> src, detail |-> ""]

\* resolve_price returns (price, src) to get_price, which answers
Return(r, f, price, src) ==
    /\ frame' = StoreLocal(frame, r,
                    [f EXCEPT !.returned = TRUE, !.rprice = price, !.rsrc = src])
    /\ response' = [response EXCEPT ![r] = Finish(args[r], f.sym, price, src, KNOWN)]
    /\ pc' = [pc EXCEPT ![r] = "done"]

(***************************************************************************)
(* Actions                                                                 *)
(***************************************************************************)
Init ==
    /\ API_KEY = DEFAULT_API_KEY
    /\ KNOWN = KNOWN_TABLE
    /\ TIMEOUT = UPSTREAM_TIMEOUT
    /\ RETRIES \in 0..MaxRetries
    /\ pc = [r \in Requests |-> "idle"]
    /\ args = [r \in Requests |-> NoArgs]
    /\ frame = [r \in Requests |-> NoFrame]
    /\ response = [r \in Requests |-> NoResponse]
    /\ hist = [r \in Requests |-> NoHist]
    /\ page = NoPage
    /\ extracted = None

\* GET /v1/price arrives: get_price runs to its first await
get_price(r, symbol, prefer, x_api_key) ==
    /\ pc[r] = "idle"
    /\ args' = [args EXCEPT ![r] =
                   [symbol |-> symbol, prefer |-> prefer, x_api_key |-> x_api_key]]
    /\ hist' = [hist EXCEPT ![r] = NoHist]
    /\ LET sym == strip(symbol)
           p == IF prefer = "None" THEN "rahavard" ELSE prefer
           f == [NoFrame EXCEPT !.sym = sym, !.order = Order(p), !.i = 1,
                                !.entered = TRUE]
       IN  IF x_api_key # API_KEY
           THEN /\ response' = [response EXCEPT ![r] = HttpError(401, "")]
                /\ pc' = [pc EXCEPT ![r] = "done"]
                /\ frame' = StoreLocal(frame, r, NoFrame)
           ELSE IF ~InKnown(sym, KNOWN)
           THEN /\ response' = [response EXCEPT ![r] = HttpError(400, "")]
                /\ pc' = [pc EXCEPT ![r] = "done"]
                /\ frame' = StoreLocal(frame, r, [NoFrame EXCEPT !.sym = sym])
           ELSE IF RETRIES > 0
           THEN /\ frame' = StoreLocal(frame, r, f)
                /\ pc' = [pc EXCEPT ![r] = "fetch"]
                /\ UNCHANGED response
           ELSE Return(r, f, None, "")
    /\ UNCHANGED <<config, page, extracted>>

\* the awaited fetcher returns: resolve_price tests the price
fetch_returns(r, reply) ==
    /\ pc[r] = "fetch"
    /\ LET f == frame[r]
           src == f.order[f.i]
           price == Fetch(src, f.sym, reply, TIMEOUT)
           g == [f EXCEPT !.price = price]
       IN  /\ hist' = [hist EXCEPT
                          ![r].log = Append(@, [src |-> src, price |-> price]),
                          ![r].last = [error |-> reply.error,
                                       late |-> reply.elapsed > TIMEOUT,
                                       status |-> reply.status]]
           /\ IF price = Raised \/ Truthy(price)
              THEN Return(r, g, price, src)
              ELSE /\ frame' = StoreLocal(frame, r, g)
                   /\ pc' = [pc EXCEPT ![r] = "sleep"]
                   /\ UNCHANGED response
    /\ UNCHANGED <<config, args, page, extracted>>

\* asyncio.sleep returns: next attempt, next source, or return None, ""
sleep_returns(r) ==
    /\ pc[r] = "sleep"
    /\ LET f == frame[r]
       IN  /\ hist' = [hist EXCEPT
                          ![r].sleeps = Append(@, [after |-> Len(hist[r].log),
                                                   ms |-> SleepDelay(f.n)]),
                          ![r].last = NoReply]
           /\ IF f.n + 1 < RETRIES
              THEN /\ frame' = StoreLocal(frame, r, [f EXCEPT !.n = f.n + 1])
                   /\ pc' = [pc EXCEPT ![r] = "fetch"]
                   /\ UNCHANGED response
              ELSE IF f.i < Len(f.order)
              THEN /\ frame' = StoreLocal(frame, r, [f EXCEPT !.i = f.i + 1, !.n = 0])
                   /\ pc' = [pc EXCEPT ![r] = "fetch"]
                   /\ UNCHANGED response
              ELSE Return(r, f, None, "")
    /\ UNCHANGED <<config, args, page, extracted>>

\* the response is sent and the request's coroutine is gone
send_response(r) ==
    /\ pc[r] = "done"
    /\ pc' = [pc EXCEPT ![r] = "idle"]
    /\ args' = [args EXCEPT ![r] = NoArgs]
    /\ frame' = StoreLocal(frame, r, NoFrame)
    /\ response' = [response EXCEPT ![r] = NoResponse]
    /\ hist' = [hist EXCEPT ![r] = NoHist]
    /\ UNCHANGED <<config, page, extracted>>

(***************************************************************************)
(* extract_last_price called on its own                                    *)
(***************************************************************************)
LABEL == AKHARIN \o <<" ">> \o QEYMAT

RECURSIVE SeqsUpTo(_, _)
\* the non-empty sequences over S of length at most n
SeqsUpTo(S, n) ==
    IF n = 0 THEN {}
    ELSE LET shorter == SeqsUpTo(S, n - 1)
         IN  {<<c>> : c \in S} \cup shorter \cup {Append(s, c) : s \in shorter, c \in S}

PageLabels == {<<>>, LABEL, AKHARIN \o QEYMAT}
PageGaps == {<<>>, <<":", " ">>, <<"x">>}
PageRuns == SeqsUpTo({"0", "1", "fa2", ","}, MaxRun)
PagePres == {<<>>, <<"6", "5", "4", "3", "2", "1", " ">>,
             <<"fa6", "fa5", "fa4", ".", "fa3", "fa2", "fa1", "x">>}
PagePosts == {<<>>, <<" ", "x">>, <<" ", "7", "0", "0", "0", "0", "0">>}

Pages == [pre : PagePres, lab : PageLabels, gap : PageGaps, run : PageRuns,
          post : PagePosts]

Html(p) == p.pre \o p.lab \o p.gap \o p.run \o p.post

extract_call(p) ==
    /\ page = NoPage
    /\ page' = p
    /\ extracted' = extract_last_price(Html(p))
    /\ UNCHANGED <<config, pc, args, frame, response, hist>>

(***************************************************************************)
(* The requests and replies checked                                        *)
(***************************************************************************)
PageLabeled == LABEL \o <<":", " ", "1", "2", ",", "5">>
PageLongRun == <<"x", " ", "6", "5", "4", ",", "3", "2", "1">>
PageZero == <<"0", "0", "0", "0", "0", "0">>
PageNoPrice == <<"x">>

Reply(error, elapsed, status, text) ==
    [error |-> error, elapsed |-> elapsed, status |-> status, text |-> text]

Replies ==
    {Reply("ConnectError", 1, 0, <<>>),
     Reply("", UPSTREAM_TIMEOUT + 1, 0, <<>>),
     Reply("", 1, 404, PageLabeled),
     Reply("", 1, 200, PageLabeled),
     Reply("", 1, 200, PageLongRun),
     Reply("", 1, 200, PageZero),
     Reply("", 1, 200, PageNoPrice)}

Symbols == {<<" ">> \o SymGold \o <<"nl">>, SymGoldTypo, SymLowerTypo, SymSilver}
Prefers == {"chartix", "rahavard", "None"}
Keys == {DEFAULT_API_KEY, "wrong", "None"}

\* the narrower inputs of the runs with several requests in flight
ConcReplies ==
    {Reply("", UPSTREAM_TIMEOUT + 1, 0, <<>>),
     Reply("", 1, 200, PageLabeled),
     Reply("", 1, 200, PageLongRun)}
ConcSymbols == {SymGold, SymLowerTypo}
ConcPrefers == {"chartix", "None"}

\* no other request is being served
Alone(r) == \A q \in Requests \ {r} : pc[q] = "idle"

(***************************************************************************)
(* Specifications                                                          *)
(***************************************************************************)
\* requests served one at a time, over all the inputs
Next ==
    \E r \in Requests :
        \/ /\ Alone(r)
           /\ \E symbol \in Symbols, prefer \in Prefers, key \in Keys :
                  get_price(r, symbol, prefer, key)
        \/ \E reply \in Replies : fetch_returns(r, reply)
        \/ sleep_returns(r)
        \/ send_response(r)

Spec == Init /\ [][Next]_vars

\* requests in flight together, interleaved at every await
NextConc ==
    \E r \in Requests :
        \/ \E symbol \in ConcSymbols, prefer \in ConcPrefers :
               get_price(r, symbol, prefer, DEFAULT_API_KEY)
        \/ \E reply \in ConcReplies : fetch_returns(r, reply)
        \/ sleep_returns(r)
        \/ send_response(r)

InitConc == Init /\ RETRIES \in 1..MaxConcRetries

SpecConc == InitConc /\ [][NextConc]_vars

\* extract_last_price applied to each page
NextExtract == \E p \in Pages : extract_call(p)

SpecExtract == Init /\ [][NextExtract]_vars

(***************************************************************************)
(* Properties                                                              *)
(***************************************************************************)
\* a present, strictly positive integer price
Usable(p) == Len(p) = 1 /\ p[1] \in Nat /\ p[1] > 0

Preferred(r) == IF args[r].prefer = "None" THEN "rahavard" ELSE args[r].prefer
Other(s) == IF s = "chartix" THEN "rahavard" ELSE "chartix"

\* the source of the fetch request r is waiting for
Awaited(r) == frame[r].order[frame[r].i]

\* fetch calls request r has issued to source s, the one in flight included
Calls(r, s) ==
    Cardinality({k \in 1..Len(hist[r].log) : hist[r].log[k].src = s})
    + (IF pc[r] = "fetch" /\ Awaited(r) = s THEN 1 ELSE 0)

\* fetches of request r to source s that returned no usable price
Failed(r, s) ==
    Cardinality({k \in 1..Len(hist[r].log) :
                    hist[r].log[k].src = s /\ ~Usable(hist[r].log[k].price)})

\* C1: sources are tried preferred first, RETRIES times each, and resolve_price
\* stops at the first usable price: no fetch follows it, the result is that
\* price with its source, and when the preferred source failed RETRIES times
\* and the other source answered at once, RETRIES + 1 fetches were issued.
C1_PreferredFirstStopAtFirst ==
    \A r \in Requests :
        LET log == hist[r].log
            A == Preferred(r)
            B == Other(A)
            n == Len(log)
        IN  /\ \A k \in 1..n : log[k].src = (IF k <= RETRIES THEN A ELSE B)
            /\ pc[r] = "fetch" => Awaited(r) = (IF n < RETRIES THEN A ELSE B)
            /\ \A k \in 1..n :
                   Usable(log[k].price) =>
                       /\ k = n
                       /\ pc[r] = "done"
                       /\ frame[r].returned
                       /\ frame[r].rprice = log[k].price
                       /\ frame[r].rsrc = log[k].src
            /\ (/\ n = RETRIES + 1
                /\ Failed(r, A) = RETRIES
                /\ log[n].src = B
                /\ Usable(log[n].price))
               => /\ frame[r].rprice = log[n].price
                  /\ frame[r].rsrc = B
                  /\ response[r].source = B
                  /\ Calls(r, A) + Calls(r, B) = RETRIES + 1

C1_Witness ==
    \E r \in Requests :
        /\ RETRIES >= 2
        /\ args[r].prefer = "chartix"
        /\ pc[r] = "done"
        /\ Len(hist[r].log) = RETRIES + 1
        /\ Failed(r, "chartix") = RETRIES
        /\ frame[r].rsrc = "rahavard"
        /\ Usable(frame[r].rprice)

\* C2: resolve_price returns (None, "") only when each of chartix and
\* rahavard was fetched exactly RETRIES times and none of those fetches
\* returned a usable price.
C2_AbsentOnlyAfterAll ==
    \A r \in Requests :
        (frame[r].returned /\ frame[r].rprice = None /\ frame[r].rsrc = "")
        => \A s \in {"chartix", "rahavard"} :
               Calls(r, s) = RETRIES /\ Failed(r, s) = RETRIES

C2_Witness ==
    \E r \in Requests :
        /\ RETRIES >= 2
        /\ frame[r].returned
        /\ frame[r].rprice = None
        /\ response[r].status = 502
        /\ Len(hist[r].log) = 2 * RETRIES
        /\ \E k \in 1..Len(hist[r].log) : hist[r].log[k].price = Some(0)

\* C3: a request with the valid key whose stripped symbol is not in KNOWN is
\* answered 400 without entering resolve_price and without any fetch.
C3_UnknownSymbolNoFetch ==
    \A r \in Requests :
        (/\ pc[r] # "idle"
         /\ args[r].x_api_key = API_KEY
         /\ strip(args[r].symbol) \notin DOMAIN KNOWN)
        => /\ pc[r] = "done"
           /\ response[r].status = 400
           /\ ~frame[r].entered
           /\ hist[r].log = <<>>
           /\ \A s \in {"chartix", "rahavard"} : Calls(r, s) = 0

C3_Witness ==
    \E r \in Requests :
        /\ args[r].symbol = SymLowerTypo
        /\ args[r].x_api_key = API_KEY
        /\ response[r].status = 400

\* C4: a 200 response carries a strictly positive integer lastPrice, the
\* price of the last fetch; a zero or absent fetch result is never quoted,
\* and a request all of whose fetches were such ends in 502.
C4_QuotePositive ==
    \A r \in Requests :
        LET log == hist[r].log
        IN  /\ response[r].status = 200
               => /\ Usable(response[r].lastPrice)
                  /\ log # <<>>
                  /\ log[Len(log)].price = response[r].lastPrice
            /\ (/\ pc[r] = "done"
                /\ frame[r].entered
                /\ \A k \in 1..Len(log) : ~Usable(log[k].price))
               => response[r].status = 502

C4_Witness ==
    \E r \in Requests :
        /\ response[r].status = 200
        /\ \E k \in 1..Len(hist[r].log) : hist[r].log[k].price = Some(0)
        /\ \E k \in 1..Len(hist[r].log) : hist[r].log[k].price = None

\* C5: a request spelled cd1gob0001 or CD1GOB0001 is resolved and quoted
\* under the canonical symbol CD1G0B0001.
C5_AliasQuotedCanonical ==
    \A r \in Requests :
        (/\ pc[r] # "idle"
         /\ args[r].x_api_key = API_KEY
         /\ args[r].symbol \in {SymLowerTypo, SymGoldTypo})
        => /\ frame[r].sym = SymGold
           /\ response[r].status # 400
           /\ response[r].status = 200 => response[r].symbol = SymGold

\* the run of a page is a maximal digit/separator run that follows the label
\* after characters that are neither digits nor separators
RunFollowsLabel(p) ==
    /\ p.lab # <<>>
    /\ \A k \in 1..Len(p.gap) : p.gap[k] \notin NumClass
    /\ p.post = <<>> \/ p.post[1] \notin NumClass

\* C6: when a page holds the label followed by a run that parses to a
\* nonzero integer and, elsewhere, a run of at least 6 digit/separator
\* characters, extract_last_price returns the labeled value.
C6_LabeledPreferred ==
    (/\ RunFollowsLabel(page)
     /\ Usable(to_int(page.run))
     /\ LongRunGroup(page.pre) # <<>> \/ LongRunGroup(page.post) # <<>>)
    => extracted = to_int(page.run)

\* C7: a fetch attempt that fails (transport error, timeout, status other
\* than 200) yields None and the request goes on to the delay as for an
\* absent price; a request with the valid key ends in 200, 400 or 502.
C7_FailuresAbsorbed ==
    \A r \in Requests :
        LET l == hist[r].last
            log == hist[r].log
        IN  /\ (pc[r] = "done" /\ args[r].x_api_key = API_KEY)
               => response[r].status \in {200, 400, 502}
            /\ (l.error # "" \/ l.late \/ l.status \notin {0, 200})
               => /\ log # <<>>
                  /\ log[Len(log)].price = None
                  /\ frame[r].price = None
                  /\ pc[r] = "sleep"

C7_Witness ==
    \E r \in Requests :
        /\ pc[r] = "sleep"
        /\ hist[r].last.late
        /\ Len(hist[r].log) >= 2
        /\ hist[r].log[1].src = "chartix"

\* the state of request r
Local(r) == <<pc[r], args[r], frame[r], response[r], hist[r]>>

\* what get_price answers to arguments a after the fetch results log
ExpectedResponse(a, log) ==
    LET sym == strip(a.symbol)
        won == {k \in 1..Len(log) : Usable(log[k].price)}
    IN  IF a.x_api_key # DEFAULT_API_KEY THEN <<401, <<>>, None, "">>
        ELSE IF sym \notin DOMAIN KNOWN_TABLE THEN <<400, <<>>, None, "">>
        ELSE IF won = {} THEN <<502, <<>>, None, "">>
        ELSE LET k == SetMin(won)
             IN  <<200, sym, log[k].price, log[k].src>>

\* C8: with requests interleaved at their awaits, a step of one request
\* changes no other request's state, the response of a request is a function
\* of its own arguments and its own fetch results, and API_KEY, KNOWN,
\* TIMEOUT and RETRIES never change.
C8_RequestsIndependent ==
    /\ [](\A r \in Requests :
            pc[r] = "done" =>
                <<response[r].status, response[r].symbol, response[r].lastPrice,
                  response[r].source>> = ExpectedResponse(args[r], hist[r].log))
    /\ [][/\ UNCHANGED config
          /\ \A r, q \in Requests :
                 (r # q /\ Local(r)' # Local(r)) => Local(q)' = Local(q)]_vars

C8_Witness ==
    \E r, q \in Requests :
        /\ r # q
        /\ pc[r] = "sleep"
        /\ Len(hist[r].log) >= 2
        /\ pc[q] = "done"
        /\ response[q].status = 200
        /\ args[q].prefer # args[r].prefer
        /\ Len(hist[q].log) >= 2

\* C9: two consecutive attempts on one source are separated by exactly one
\* delay, every delay has the same fixed length, and no delay follows an
\* attempt that returned a usable price.
C9_FixedDelayBetweenRetries ==
    \A r \in Requests :
        LET log == hist[r].log
            sl == hist[r].sleeps
            After(k) == {j \in 1..Len(sl) : sl[j].after = k}
        IN  /\ \A j \in 1..Len(sl) : sl[j].ms = RetryDelayMs
            /\ \A k \in 1..(Len(log) - 1) :
                   log[k].src = log[k + 1].src => Cardinality(After(k)) = 1
            /\ (pc[r] = "fetch" /\ log # <<>> /\ log[Len(log)].src = Awaited(r))
               => Cardinality(After(Len(log))) = 1
            /\ \A j \in 1..Len(sl) :
                   sl[j].after \in 1..Len(log) /\ ~Usable(log[sl[j].after].price)

C9_Witness ==
    \E r \in Requests :
        /\ pc[r] = "done"
        /\ Len(hist[r].log) >= 3
        /\ hist[r].log[2].src = hist[r].log[3].src
        /\ Usable(hist[r].log[3].price)
        /\ Len(hist[r].sleeps) = 2

\* C10: for a page made of the label, characters that are not digits, a
\* maximal run of Persian or Latin digits and separators that parses to a
\* nonzero integer v, and any further text, extract_last_price returns v.
C10_LabeledRunValue ==
    (/\ page.pre = <<>>
     /\ RunFollowsLabel(page)
     /\ Usable(to_int(page.run)))
    => extracted = to_int(page.run)

====
